---- MODULE Spec2Model ----
(***************************************************************************)
(* Model of the linux-aio vdev backend, lib/libzpool/vdev_disk_aio.c:      *)
(* the global AIO context (io_ctx, stop_polling, poller_tid), the poller   *)
(* thread vdev_disk_aio_poll, completion handling vdev_disk_aio_done, the  *)
(* submission path vdev_disk_aio_start and vdev_disk_aio_init/_fini.       *)
(* The kernel AIO queue is modelled by its interface: a set of accepted    *)
(* operations, a completion ring, and the slot bound given to io_setup.    *)
(***************************************************************************)
EXTENDS Integers, Sequences, FiniteSets, TLC

(* ------------------------------ bounds -------------------------------- *)

\* Number of pipeline requests (each handed to vdev_disk_aio_start by its
\* own thread) in the concurrent specifications.
NumZios == 2

\* Cap on the queue depth used by the model: the kernel queue of the model
\* holds min(AIO_QUEUE_DEPTH, MaxDepth) operations.
MaxDepth == 1

\* Largest io_size, and largest byte count the kernel reports.
MaxSize == 3

\* Largest OS error number the kernel reports in a completion (EIO).
MaxErrno == 5

\* Addresses kmem_zalloc can return for a vdev_disk_aio_t.
MaxHandles == 2

\* Width of unsigned long and of int in the model (the arithmetic is the
\* code's, modulo 2^width; the widths are reduced to fit TLC's integers).
ULONG_BITS == 16

INT_BITS == 8

(* ------------------------- program constants -------------------------- *)

AIO_QUEUE_DEPTH == 128

EINTR == 4

ENXIO == 6

EAGAIN == 11

EINVAL == 22

ENOSPC == 28

ENOTSUP == 95

NULL == 0

SPA_MINBLOCKSIZE == 512

ZIO_TYPE_READ == "READ"

ZIO_TYPE_WRITE == "WRITE"

ZIO_TYPE_FREE == "FREE"

ZIO_TYPE_IOCTL == "IOCTL"

DKIOCFLUSHWRITECACHE == "DKIOCFLUSHWRITECACHE"

DKIOCGGEOM == "DKIOCGGEOM"

Min(a, b) == IF a < b THEN a ELSE b

\* The depth given to io_setup and to io_getevents, capped by MaxDepth.
QueueDepth == Min(AIO_QUEUE_DEPTH, MaxDepth)

Zios == 1..NumZios

Kinds == {ZIO_TYPE_READ, ZIO_TYPE_WRITE, ZIO_TYPE_IOCTL, ZIO_TYPE_FREE}

Commands == {DKIOCFLUSHWRITECACHE, DKIOCGGEOM}

Sizes == 1..MaxSize

(* ------------------------- integer conversions ------------------------ *)

ULONG_MOD == 2 ^ ULONG_BITS

INT_MOD == 2 ^ INT_BITS

\* A signed kernel result stored in the unsigned long field io_event.res.
ToULong(s) == s % ULONG_MOD

\* Unary minus on an unsigned long.
ULongNeg(u) == (ULONG_MOD - u) % ULONG_MOD

\* Conversion of an unsigned long to int (zio->io_error is an int).
ToInt(u) == LET m == u % INT_MOD IN IF m >= INT_MOD \div 2 THEN m - INT_MOD ELSE m

(* ------------------------------ state --------------------------------- *)

VARIABLES
    zio,          \* zio[z]: io_type, io_cmd, io_size, io_error of request z,
                  \*   and what vdev_readable and zfs_nocacheflush were for it
    settled,      \* settled[z]: the continuation calls made on request z, in order
    task,         \* task[z]: the aio_task_t allocated for request z
    pc,           \* pc[z]: position of the thread running vdev_disk_aio_start(z)
    error,        \* error[z]: the local 'error' of vdev_disk_aio_start(z)
    atSubmit,     \* atSubmit[z]: whether the kernel queue was "full" or had a
                  \*   "free" slot when io_submit was called for request z
    finalized,    \* finalized[z]: number of vdev_disk_aio_done calls on task z
    io_ctx,       \* the global io_ctx (NULL or the context id)
    kctx,         \* the kernel's state of that context
    stop_polling, \* the global stop_polling
    poller_tid,   \* the global poller_tid
    inflight,     \* operations accepted by io_submit and not yet completed
    ring,         \* completion events not yet fetched by io_getevents
    ppc,          \* position of the poller thread
    events,       \* the poller's events array (the first nr entries)
    idx,          \* the poller's loop index i (1-based)
    mpc,          \* position of the thread running init and then fini
    late,         \* kernel calls issued after io_destroy has run
    vdev_tsd,           \* vd->vdev_tsd: NULL or the address of the handle
    vdev_reopening,     \* vd->vdev_reopening
    vdev_delayed_close, \* vd->vdev_delayed_close
    vdev_nonrot,        \* vd->vdev_nonrot
    vs_aux,             \* vd->vdev_stat.vs_aux
    vda,          \* vda[h]: the vdev_disk_aio_t at address h and its vda_fd
    fds,          \* the descriptors the process has open
    dev,          \* what the device answers to the three geometry queries
    outs,         \* the caller's *ashift, *psize and *max_psize
    last,         \* what the last call of open or close did
    dpc           \* "abort" once an assertion has stopped the process

devVars == <<vdev_tsd, vdev_reopening, vdev_delayed_close, vdev_nonrot, vs_aux, vda,
             fds, dev, outs, last, dpc>>

aioVars == <<zio, settled, task, pc, error, atSubmit, finalized, io_ctx, kctx,
             stop_polling, poller_tid, inflight, ring, ppc, events, idx, mpc, late>>

vars == <<aioVars, devVars>>

zioVars == <<zio, settled, task, pc, error, atSubmit>>

ctxVars == <<io_ctx, stop_polling, poller_tid, mpc>>

pollVars == <<ppc, events, idx>>

NoZio == [io_type |-> "NULL", io_cmd |-> "NULL", io_size |-> 0, io_error |-> 0,
          readable |-> TRUE, nocacheflush |-> FALSE]

NoTask == [st |-> "none", buf |-> "NULL", iocb |-> "none"]

Handles == 1..MaxHandles

\* Memory that holds no vdev_disk_aio_t (never allocated, or freed).
NoHandle == [st |-> "free", vda_fd |-> -1]

NoOuts == [ashift |-> 0, psize |-> 0, max_psize |-> 0]

\* The record of a call of vdev_disk_aio_open or vdev_disk_aio_close: what it
\* returned, whether it found a handle (reopen), the handle it allocated,
\* whether it called open(), the geometry query that failed (0: none), the
\* close() calls it made, on which descriptor, and whether a query or a
\* close() was made on a descriptor that is not open.  seq flips at each call.
NoCall == [seq |-> 0, fn |-> "none", ret |-> 0, reopen |-> FALSE, alloc |-> 0,
           opened |-> FALSE, failq |-> 0, closes |-> 0, closed_fd |-> -1,
           ebadf |-> FALSE]

Init ==
    /\ zio = [z \in Zios |-> NoZio]
    /\ settled = [z \in Zios |-> <<>>]
    /\ task = [z \in Zios |-> NoTask]
    /\ pc = [z \in Zios |-> "idle"]
    /\ error = [z \in Zios |-> 0]
    /\ atSubmit = [z \in Zios |-> "none"]
    /\ finalized = [z \in Zios |-> 0]
    /\ io_ctx = NULL
    /\ kctx = "none"
    /\ stop_polling = FALSE
    /\ poller_tid = 0
    /\ inflight = {}
    /\ ring = <<>>
    /\ ppc = "none"
    /\ events = <<>>
    /\ idx = 0
    /\ mpc = "init"
    /\ late = {}
    /\ vdev_tsd = NULL
    /\ vdev_reopening = FALSE
    /\ vdev_delayed_close = FALSE
    /\ vdev_nonrot = FALSE
    /\ vs_aux = "VDEV_AUX_NONE"
    /\ vda = [h \in Handles |-> NoHandle]
    /\ fds = {}
    /\ dev = [ssz |-> SPA_MINBLOCKSIZE, size |-> 1, rot |-> 1]
    /\ outs = NoOuts
    /\ last = NoCall
    /\ dpc = "run"

\* vdev_disk_aio_init has returned.
InitReturned == mpc \notin {"init", "create", "store"}

\* io_destroy has run.
Destroyed == mpc \in {"null", "done"}

(* ---------------------- vdev_disk_aio_done ---------------------------- *)

\* Mutant of DoneError: a short transfer is not told from a full one.
DoneErrorShortAccepted(io_type, io_size, io_error, res) ==
    IF io_type = ZIO_TYPE_IOCTL
    THEN IF res # 0 THEN ToInt(ULongNeg(res)) ELSE io_error
    ELSE IF res < 0 THEN ToInt(ULongNeg(res))
         ELSE IF res > io_size THEN ENOSPC ELSE io_error

\* The value vdev_disk_aio_done leaves in zio->io_error, for an operation of
\* kind io_type and length io_size whose io_error was io_error, given the
\* unsigned long result res.
DoneError(io_type, io_size, io_error, res) ==
    IF io_type = ZIO_TYPE_IOCTL
    THEN IF res # 0 THEN ToInt(ULongNeg(res)) ELSE io_error
    ELSE IF res < 0 THEN ToInt(ULongNeg(res))
         ELSE IF res # io_size THEN ENOSPC ELSE io_error

\* The state of the task's buffer after abd_return_buf_copy / abd_return_buf.
DoneBuf(io_type, buf) ==
    IF io_type \in {ZIO_TYPE_READ, ZIO_TYPE_WRITE} THEN "returned" ELSE buf

\* Mutant of Continuation: the two re-entry paths are swapped.
ContinuationSwapped(io_type) ==
    IF io_type = ZIO_TYPE_READ THEN "zio_execute" ELSE "zio_interrupt"

\* The pipeline re-entry vdev_disk_aio_done calls.
Continuation(io_type) ==
    IF io_type = ZIO_TYPE_READ THEN "zio_interrupt" ELSE "zio_execute"

\* A continuation call on request z, with the request's error field and the
\* state of its task when the call is made.
Call(z, fn, who) ==
    [fn |-> fn, by |-> who, io_error |-> zio[z].io_error, task |-> task[z].st]

\* vdev_disk_aio_done(events[i].data, events[i].res), first part: the buffer
\* is returned and the error field is settled.
DoneSettle ==
    /\ ppc = "done"
    /\ LET z == events[idx].data
           res == events[idx].res
       IN /\ zio' = [zio EXCEPT ![z].io_error =
                        DoneError(zio[z].io_type, zio[z].io_size, @, res)]
          /\ task' = [task EXCEPT ![z].buf = DoneBuf(zio[z].io_type, @)]
          /\ finalized' = [finalized EXCEPT ![z] = @ + 1]
    /\ ppc' = "done_cont"
    /\ UNCHANGED <<devVars, settled, pc, error, atSubmit, io_ctx, kctx, stop_polling, poller_tid,
                   inflight, ring, events, idx, mpc, late>>

\* vdev_disk_aio_done, second part: zio_interrupt(zio) or zio_execute(zio).
DoneDispatch ==
    /\ ppc = "done_cont"
    /\ LET z == events[idx].data
       IN settled' = [settled EXCEPT ![z] =
                         Append(@, Call(z, Continuation(zio[z].io_type), "done"))]
    /\ ppc' = "done_free"
    /\ UNCHANGED <<devVars, zio, task, pc, error, atSubmit, finalized, io_ctx, kctx, stop_polling,
                   poller_tid, inflight, ring, events, idx, mpc, late>>

\* Mutant of NextIndex: the loop index is not advanced.
NextIndexStuck(i) == i

\* The poller's i++ (the index is 1-based here).
NextIndex(i) == i + 1

\* vdev_disk_aio_done, last part: kmem_free(task); then the poller's i++
\* and i < nr.
\* The events array is dead once the loop has run through it.
DoneFree ==
    /\ ppc = "done_free"
    /\ LET z == events[idx].data
       IN task' = [task EXCEPT ![z].st = "freed"]
    /\ IF NextIndex(idx) <= Len(events)
       THEN /\ idx' = NextIndex(idx)
            /\ ppc' = "done"
            /\ UNCHANGED events
       ELSE /\ idx' = 0
            /\ ppc' = "loop"
            /\ events' = <<>>
    /\ UNCHANGED <<devVars, zio, settled, pc, error, atSubmit, finalized, io_ctx, kctx,
                   stop_polling, poller_tid, inflight, ring, mpc, late>>

(* ---------------------- vdev_disk_aio_poll ---------------------------- *)

\* What io_getevents(io_ctx, 1, AIO_QUEUE_DEPTH, events, &timeout) can
\* return: the number of events fetched (0 after the timeout), -EINTR, or
\* an unrecoverable error.
GetEventsOutcomes ==
    (IF io_ctx # NULL /\ kctx = "open"
     THEN {Min(Len(ring), QueueDepth)} ELSE {}) \cup {-EINTR, -EINVAL}

\* while (!stop_polling)
PollLoop ==
    /\ ppc = "loop"
    /\ ppc' = IF stop_polling THEN "exit" ELSE "wait"
    /\ UNCHANGED <<devVars, zioVars, finalized, io_ctx, kctx, stop_polling, poller_tid,
                   inflight, ring, events, idx, mpc, late>>

\* nr = io_getevents(...) and the tests on nr that follow it.
PollGetEvents(nr) ==
    /\ ppc = "wait"
    /\ nr \in GetEventsOutcomes
    /\ late' = IF Destroyed THEN late \cup {"io_getevents"} ELSE late
    /\ IF nr < 0
       THEN /\ ppc' = IF -nr = EINTR THEN "loop" ELSE "exit"
            /\ UNCHANGED <<ring, events, idx>>
       ELSE IF nr = 0
       THEN /\ ppc' = "loop"
            /\ UNCHANGED <<ring, events, idx>>
       ELSE /\ events' = SubSeq(ring, 1, nr)
            /\ ring' = SubSeq(ring, nr + 1, Len(ring))
            /\ idx' = 1
            /\ ppc' = "done"
    /\ UNCHANGED <<devVars, zioVars, finalized, io_ctx, kctx, stop_polling, poller_tid,
                   inflight, mpc>>

\* kmem_free(events); poller_tid = 0; thread_exit();
PollExit ==
    /\ ppc = "exit"
    /\ poller_tid' = 0
    /\ ppc' = "gone"
    /\ UNCHANGED <<devVars, zioVars, finalized, io_ctx, kctx, stop_polling, inflight,
                   ring, events, idx, mpc, late>>

(* --------------------------- the kernel ------------------------------- *)

\* Operations the kernel queue holds: accepted, completion not yet fetched.
Queued == Cardinality(inflight) + Len(ring)

\* The kernel has no free slot: it holds as many operations as io_setup
\* was asked for.
QueueFull == Queued >= QueueDepth

\* An accepted operation completes with the signed result s.
KernelComplete(z, s) ==
    /\ z \in inflight
    /\ kctx = "open"
    /\ inflight' = inflight \ {z}
    /\ ring' = Append(ring, [data |-> z, res |-> ToULong(s)])
    /\ UNCHANGED <<devVars, zioVars, finalized, io_ctx, kctx, stop_polling, poller_tid,
                   pollVars, mpc, late>>

(* ---------------------- vdev_disk_aio_start --------------------------- *)

\* The requests the pipeline hands to vdev_disk_aio_start: kind, command and
\* length of the zio, with what vdev_readable(vd) and zfs_nocacheflush are
\* when it is handed over (both are read for control requests only).
DataRequests ==
    {[io_type |-> k, io_cmd |-> "NULL", io_size |-> n, readable |-> TRUE,
      nocacheflush |-> FALSE] :
        k \in {ZIO_TYPE_READ, ZIO_TYPE_WRITE, ZIO_TYPE_FREE}, n \in Sizes}

ControlRequests ==
    {[io_type |-> ZIO_TYPE_IOCTL, io_cmd |-> c, io_size |-> 0, readable |-> r,
      nocacheflush |-> f] : c \in Commands, r \in BOOLEAN, f \in BOOLEAN}

Requests == DataRequests \cup ControlRequests

\* Mutant of CheckType: a flush on an unreadable device is settled through
\* zio_execute.
CheckTypeUnreadableExecutes(r) ==
    IF r.io_type = ZIO_TYPE_IOCTL
    THEN IF ~r.readable
         THEN [error |-> ENXIO, call |-> <<"zio_execute">>, then |-> "return"]
         ELSE IF r.io_cmd # DKIOCFLUSHWRITECACHE
         THEN [error |-> ENOTSUP, call |-> <<"zio_execute">>, then |-> "return"]
         ELSE IF r.nocacheflush
         THEN [error |-> 0, call |-> <<"zio_execute">>, then |-> "return"]
         ELSE [error |-> 0, call |-> <<>>, then |-> "break"]
    ELSE IF r.io_type \in {ZIO_TYPE_WRITE, ZIO_TYPE_READ}
    THEN [error |-> 0, call |-> <<>>, then |-> "break"]
    ELSE [error |-> ENOTSUP, call |-> <<"zio_interrupt">>, then |-> "break"]

\* Mutant of CheckType: a command other than the flush leaves io_error unset.
CheckTypeCommandNoError(r) ==
    IF r.io_type = ZIO_TYPE_IOCTL
    THEN IF ~r.readable
         THEN [error |-> ENXIO, call |-> <<"zio_interrupt">>, then |-> "return"]
         ELSE IF r.io_cmd # DKIOCFLUSHWRITECACHE
         THEN [error |-> 0, call |-> <<"zio_execute">>, then |-> "return"]
         ELSE IF r.nocacheflush
         THEN [error |-> 0, call |-> <<"zio_execute">>, then |-> "return"]
         ELSE [error |-> 0, call |-> <<>>, then |-> "break"]
    ELSE IF r.io_type \in {ZIO_TYPE_WRITE, ZIO_TYPE_READ}
    THEN [error |-> 0, call |-> <<>>, then |-> "break"]
    ELSE [error |-> ENOTSUP, call |-> <<"zio_interrupt">>, then |-> "break"]

\* Mutant of CheckType: the command is tested before vdev_readable.
CheckTypeCommandFirst(r) ==
    IF r.io_type = ZIO_TYPE_IOCTL
    THEN IF r.io_cmd # DKIOCFLUSHWRITECACHE
         THEN [error |-> ENOTSUP, call |-> <<"zio_execute">>, then |-> "return"]
         ELSE IF ~r.readable
         THEN [error |-> ENXIO, call |-> <<"zio_interrupt">>, then |-> "return"]
         ELSE IF r.nocacheflush
         THEN [error |-> 0, call |-> <<"zio_execute">>, then |-> "return"]
         ELSE [error |-> 0, call |-> <<>>, then |-> "break"]
    ELSE IF r.io_type \in {ZIO_TYPE_WRITE, ZIO_TYPE_READ}
    THEN [error |-> 0, call |-> <<>>, then |-> "break"]
    ELSE [error |-> ENOTSUP, call |-> <<"zio_interrupt">>, then |-> "break"]

\* The first switch: "return" when the request is settled on the spot,
\* "break" when control goes on to the task allocation.
CheckType(r) ==
    IF r.io_type = ZIO_TYPE_IOCTL
    THEN IF ~r.readable
         THEN [error |-> ENXIO, call |-> <<"zio_interrupt">>, then |-> "return"]
         ELSE IF r.io_cmd # DKIOCFLUSHWRITECACHE
         THEN [error |-> ENOTSUP, call |-> <<"zio_execute">>, then |-> "return"]
         ELSE IF r.nocacheflush
         THEN [error |-> 0, call |-> <<"zio_execute">>, then |-> "return"]
         ELSE [error |-> 0, call |-> <<>>, then |-> "break"]
    ELSE IF r.io_type \in {ZIO_TYPE_WRITE, ZIO_TYPE_READ}
    THEN [error |-> 0, call |-> <<>>, then |-> "break"]
    ELSE [error |-> ENOTSUP, call |-> <<"zio_interrupt">>, then |-> "break"]

\* The second switch: the buffer borrowed and the control block prepared.
PrepTask(r) ==
    IF r.io_type = ZIO_TYPE_IOCTL
    THEN [st |-> "live", buf |-> "NULL", iocb |-> "fsync"]
    ELSE IF r.io_type = ZIO_TYPE_WRITE
    THEN [st |-> "live", buf |-> "borrowed", iocb |-> "pwrite"]
    ELSE IF r.io_type = ZIO_TYPE_READ
    THEN [st |-> "live", buf |-> "borrowed", iocb |-> "pread"]
    ELSE [st |-> "live", buf |-> "NULL", iocb |-> "unprepared"]

\* vdev_disk_aio_start(zio) up to the call of io_submit.  For a request that
\* is neither read, write nor ioctl the second switch reaches ASSERT(0),
\* which stops the process in a build with assertions and is skipped in a
\* build without them (asserts says which build this is).
StartCheck(z, r, asserts) ==
    /\ pc[z] = "idle"
    /\ InitReturned
    /\ LET c == CheckType(r)
       IN /\ zio' = [zio EXCEPT ![z] =
                        [io_type |-> r.io_type, io_cmd |-> r.io_cmd,
                         io_size |-> r.io_size, io_error |-> c.error,
                         readable |-> r.readable,
                         nocacheflush |-> r.nocacheflush]]
          /\ settled' = [settled EXCEPT ![z] =
                            IF c.call = <<>> THEN @
                            ELSE Append(@, [fn |-> c.call[1], by |-> "start",
                                            io_error |-> c.error,
                                            task |-> "none"])]
          /\ IF c.then = "return"
             THEN /\ pc' = [pc EXCEPT ![z] = "returned"]
                  /\ UNCHANGED task
             ELSE /\ task' = [task EXCEPT ![z] = PrepTask(r)]
                  /\ pc' = [pc EXCEPT ![z] =
                               IF PrepTask(r).iocb = "unprepared" /\ asserts
                               THEN "abort" ELSE "submit"]
    /\ UNCHANGED <<devVars, error, atSubmit, finalized, io_ctx, kctx, stop_polling, poller_tid,
                   inflight, ring, pollVars, mpc, late>>

\* What io_submit(io_ctx, 1, &iocb) can return: 1 when the kernel accepts
\* the operation, 0 when it accepts none, -EAGAIN when no slot is free,
\* -EINVAL for a context that is not set up or a control block it rejects.
SubmitOutcomes ==
    IF io_ctx = NULL \/ kctx # "open" THEN {-EINVAL}
    ELSE IF QueueFull THEN {-EAGAIN}
    ELSE {1, 0, -EINVAL}

\* error = io_submit(io_ctx, 1, &iocb): the kernel's side of the call.
IoSubmit(z, ret) ==
    /\ pc[z] = "submit"
    /\ ret \in SubmitOutcomes
    /\ inflight' = IF ret = 1 THEN inflight \cup {z} ELSE inflight
    /\ error' = [error EXCEPT ![z] = ret]
    /\ atSubmit' = [atSubmit EXCEPT ![z] = IF QueueFull THEN "full" ELSE "free"]
    /\ pc' = [pc EXCEPT ![z] = "in_submit"]
    /\ late' = IF Destroyed THEN late \cup {"io_submit"} ELSE late
    /\ UNCHANGED <<devVars, zio, settled, task, finalized, io_ctx, kctx, stop_polling,
                   poller_tid, ring, pollVars, mpc>>

\* Mutant of SubmitFailed: the branch for a return of 0 is missing.
SubmitFailedNegativeOnly(err) == err < 0

\* Mutant of SubmitFailed: the second branch is a plain else, taken for an
\* accepted operation too.
SubmitFailedAlways(err) == err = 0 \/ err # 0

\* if (error == 0) ... else if (error < 0) ...
SubmitFailed(err) == err <= 0

\* Mutant of SubmitError: the sign of a negative return is kept.
SubmitErrorNotNegated(err) == IF err = 0 THEN EAGAIN ELSE err

\* The value the failure branches store in zio->io_error.
SubmitError(err) == IF err = 0 THEN EAGAIN ELSE -err

\* The task and its buffer once io_submit has failed.
SubmitUnwind(t) == t

\* io_submit has returned to vdev_disk_aio_start: the code after the call.
StartReturn(z) ==
    /\ pc[z] = "in_submit"
    /\ IF SubmitFailed(error[z])
       THEN /\ zio' = [zio EXCEPT ![z].io_error = SubmitError(error[z])]
            /\ settled' = [settled EXCEPT ![z] =
                              Append(@, [fn |-> "zio_interrupt", by |-> "start",
                                         io_error |-> SubmitError(error[z]),
                                         task |-> SubmitUnwind(task[z]).st])]
            /\ task' = [task EXCEPT ![z] = SubmitUnwind(@)]
       ELSE UNCHANGED <<zio, settled, task>>
    /\ pc' = [pc EXCEPT ![z] = "returned"]
    /\ UNCHANGED <<devVars, error, atSubmit, finalized, io_ctx, kctx, stop_polling, poller_tid,
                   inflight, ring, pollVars, mpc, late>>

(* --------------- vdev_disk_aio_init, vdev_disk_aio_fini --------------- *)

\* err = io_setup(AIO_QUEUE_DEPTH, &io_ctx); on failure init returns.
InitSetup(err) ==
    /\ mpc = "init"
    /\ IF err # 0
       THEN /\ mpc' = "ready"
            /\ UNCHANGED <<io_ctx, kctx>>
       ELSE /\ io_ctx' = 1
            /\ kctx' = "open"
            /\ mpc' = "create"
    /\ UNCHANGED <<devVars, zioVars, finalized, stop_polling, poller_tid, inflight, ring,
                   pollVars, late>>

\* stop_polling = B_FALSE; thread_create(...): the poller thread exists.
InitCreate ==
    /\ mpc = "create"
    /\ stop_polling' = FALSE
    /\ ppc' = "loop"
    /\ mpc' = "store"
    /\ UNCHANGED <<devVars, zioVars, finalized, io_ctx, kctx, poller_tid, inflight, ring,
                   events, idx, late>>

\* poller_tid = (uintptr_t)<what thread_create returned>
InitStore ==
    /\ mpc = "store"
    /\ poller_tid' = 1
    /\ mpc' = "ready"
    /\ UNCHANGED <<devVars, zioVars, finalized, io_ctx, kctx, stop_polling, inflight,
                   ring, pollVars, late>>

\* stop_polling = B_TRUE
FiniStop ==
    /\ mpc = "ready"
    /\ stop_polling' = TRUE
    /\ mpc' = "wait"
    /\ UNCHANGED <<devVars, zioVars, finalized, io_ctx, kctx, poller_tid, inflight, ring,
                   pollVars, late>>

\* Mutant of PollerRunning: the test of the wait loop is inverted.
PollerRunningInverted(tid) == tid = 0

\* The test of fini's wait loop.
PollerRunning(tid) == tid # 0

\* while (poller_tid != 0)
FiniWait ==
    /\ mpc = "wait"
    /\ mpc' = IF PollerRunning(poller_tid) THEN "sleep" ELSE "destroy"
    /\ UNCHANGED <<devVars, zioVars, finalized, io_ctx, kctx, stop_polling, poller_tid,
                   inflight, ring, pollVars, late>>

\* nanosleep(&ts, NULL)
FiniSleep ==
    /\ mpc = "sleep"
    /\ mpc' = "wait"
    /\ UNCHANGED <<devVars, zioVars, finalized, io_ctx, kctx, stop_polling, poller_tid,
                   inflight, ring, pollVars, late>>

\* (void) io_destroy(io_ctx): the kernel drops the queue and what is in it.
FiniDestroy ==
    /\ mpc = "destroy"
    /\ kctx' = IF kctx = "open" THEN "destroyed" ELSE kctx
    /\ inflight' = {}
    /\ ring' = <<>>
    /\ mpc' = "null"
    /\ UNCHANGED <<devVars, zioVars, finalized, io_ctx, stop_polling, poller_tid,
                   pollVars, late>>

\* io_ctx = NULL
FiniNull ==
    /\ mpc = "null"
    /\ io_ctx' = NULL
    /\ mpc' = "done"
    /\ UNCHANGED <<devVars, zioVars, finalized, kctx, stop_polling, poller_tid, inflight,
                   ring, pollVars, late>>

(* ------------- vdev_disk_aio_open, vdev_disk_aio_close ---------------- *)

Max(a, b) == IF a > b THEN a ELSE b

RECURSIVE highbit64(_)
\* The index of the highest bit set in i, counting from 1 (0 for i = 0).
highbit64(i) == IF i = 0 THEN 0 ELSE 1 + highbit64(i \div 2)

\* The answers of a device to BLKSSZGET, BLKGETSIZE64 and BLKROTATIONAL.
\* A rotating disk, a larger disk, and a solid-state device with 4K sectors.
Geometries ==
    {[ssz |-> SPA_MINBLOCKSIZE, size |-> 1, rot |-> 1],
     [ssz |-> SPA_MINBLOCKSIZE, size |-> 2, rot |-> 1],
     [ssz |-> 8 * SPA_MINBLOCKSIZE, size |-> 2, rot |-> 0]}

\* vd->vdev_path as vdev_disk_aio_open finds it.
Paths == {"NULL", "relative", "absolute"}

\* The negation of: vd->vdev_path == NULL || vd->vdev_path[0] != '/'
PathOk(path) == path = "absolute"

\* Mutant of ReuseHandle: a handle is allocated and the device opened at
\* every call.
ReuseHandleNever(tsd) == FALSE

\* if (vd->vdev_tsd != NULL): the reopen of an existing handle.
ReuseHandle(tsd) == tsd # NULL

\* The three queries at skip_open on descriptor fd, of which query fail
\* fails (0: none); all a query on a descriptor that is not open can do is
\* fail.  What is left in the outputs and in vdev_nonrot, and the query that
\* failed.
Refresh(fd, open, fail) ==
    LET failq == IF fd \notin open THEN 1 ELSE fail
    IN [failq  |-> failq,
        ashift |-> IF failq = 1 THEN outs.ashift
                   ELSE IF failq = 0
                   THEN highbit64(Max(dev.ssz, SPA_MINBLOCKSIZE)) - 1
                   ELSE dev.ssz,
        psize  |-> IF failq \in {1, 2} THEN outs.psize ELSE dev.size,
        max_psize |-> IF failq = 0 THEN dev.size ELSE outs.max_psize,
        nonrot |-> IF failq = 0 THEN dev.rot = 0 ELSE vdev_nonrot]

\* skip_open and what follows it, for the handle h whose descriptor is fd,
\* with the descriptors in open being open: a failed query closes fd.
SkipOpen(h, fd, open, fail, reopen, alloc) ==
    LET g == Refresh(fd, open, fail)
    IN /\ outs' = [ashift |-> g.ashift, psize |-> g.psize, max_psize |-> g.max_psize]
       /\ vdev_nonrot' = g.nonrot
       /\ fds' = IF g.failq # 0 THEN open \ {fd} ELSE open
       /\ vs_aux' = IF g.failq # 0 THEN "VDEV_AUX_OPEN_FAILED" ELSE vs_aux
       /\ last' = [seq |-> 1 - last.seq, fn |-> "open",
                   ret |-> IF g.failq # 0 THEN EINVAL ELSE 0,
                   reopen |-> reopen, alloc |-> alloc, opened |-> alloc # 0,
                   failq |-> g.failq,
                   closes |-> IF g.failq # 0 THEN 1 ELSE 0,
                   closed_fd |-> IF g.failq # 0 THEN fd ELSE -1,
                   ebadf |-> fd \notin open]

\* The descriptor open() returns: the lowest one that is not open.
NewFd == CHOOSE fd \in 0..Cardinality(fds) : fd \notin fds /\ \A g \in 0..(fd - 1) : g \in fds

\* vdev_disk_aio_open(vd, psize, max_psize, ashift), with vd->vdev_path
\* being path, in a build with or without assertions; kmem_zalloc returns
\* the address h, open() succeeds or not, and geometry query fail fails.
VdevOpen(path, asserts, h, openok, fail) ==
    /\ dpc = "run"
    /\ vda[h].st # "live"
    /\ IF ~PathOk(path)
       THEN /\ vs_aux' = "VDEV_AUX_BAD_LABEL"
            /\ last' = [NoCall EXCEPT !.seq = 1 - last.seq, !.fn = "open",
                                      !.ret = EINVAL]
            /\ UNCHANGED <<vdev_tsd, vdev_nonrot, vda, fds, outs, dpc>>
       ELSE IF ReuseHandle(vdev_tsd)
       THEN IF ~vdev_reopening /\ asserts
            THEN /\ dpc' = "abort"
                 /\ UNCHANGED <<vdev_tsd, vdev_nonrot, vs_aux, vda, fds, outs, last>>
            ELSE /\ SkipOpen(vdev_tsd, vda[vdev_tsd].vda_fd, fds, fail, TRUE, 0)
                 /\ UNCHANGED <<vdev_tsd, vda, dpc>>
       ELSE IF ~openok
       THEN /\ vda' = [vda EXCEPT ![h] = NoHandle]
            /\ vs_aux' = "VDEV_AUX_OPEN_FAILED"
            /\ last' = [NoCall EXCEPT !.seq = 1 - last.seq, !.fn = "open",
                                      !.ret = ENXIO, !.alloc = h]
            /\ UNCHANGED <<vdev_tsd, vdev_nonrot, fds, outs, dpc>>
       ELSE /\ vda' = [vda EXCEPT ![h] = [st |-> "live", vda_fd |-> NewFd]]
            /\ vdev_tsd' = h
            /\ SkipOpen(h, NewFd, fds \cup {NewFd}, fail, FALSE, h)
            /\ UNCHANGED dpc
    /\ UNCHANGED <<aioVars, vdev_reopening, vdev_delayed_close, dev>>

\* Mutant of CloseSkipped: a close during a reopen is not skipped.
CloseSkippedNoHandleOnly(reopening, tsd) == tsd = NULL

\* if (vd->vdev_reopening || vda == NULL) return;
CloseSkipped(reopening, tsd) == reopening \/ tsd = NULL

\* vdev_disk_aio_close(vd)
VdevClose ==
    /\ dpc = "run"
    /\ IF CloseSkipped(vdev_reopening, vdev_tsd)
       THEN /\ last' = [NoCall EXCEPT !.seq = 1 - last.seq, !.fn = "close"]
            /\ UNCHANGED <<vdev_tsd, vdev_delayed_close, vda, fds>>
       ELSE /\ fds' = fds \ {vda[vdev_tsd].vda_fd}
            /\ vdev_delayed_close' = FALSE
            /\ vda' = [vda EXCEPT ![vdev_tsd] = NoHandle]
            /\ vdev_tsd' = NULL
            /\ last' = [NoCall EXCEPT !.seq = 1 - last.seq, !.fn = "close",
                                      !.closes = 1,
                                      !.closed_fd = vda[vdev_tsd].vda_fd,
                                      !.ebadf = vda[vdev_tsd].vda_fd \notin fds]
    /\ UNCHANGED <<aioVars, vdev_reopening, vdev_nonrot, vs_aux, dev, outs, dpc>>

\* The caller of open and close sets or clears vd->vdev_reopening.
SetReopening(b) ==
    /\ dpc = "run"
    /\ vdev_reopening # b
    /\ vdev_reopening' = b
    /\ UNCHANGED <<aioVars, vdev_tsd, vdev_delayed_close, vdev_nonrot, vs_aux, vda,
                   fds, dev, outs, last, dpc>>

\* The pipeline asks for a delayed close of the device.
SetDelayedClose ==
    /\ dpc = "run"
    /\ ~vdev_delayed_close
    /\ vdev_delayed_close' = TRUE
    /\ UNCHANGED <<aioVars, vdev_tsd, vdev_reopening, vdev_nonrot, vs_aux, vda,
                   fds, dev, outs, last, dpc>>

\* The device is replaced or resized: its answers change.
DevChange(g) ==
    /\ dpc = "run"
    /\ dev # g
    /\ dev' = g
    /\ UNCHANGED <<aioVars, vdev_tsd, vdev_reopening, vdev_delayed_close, vdev_nonrot,
                   vs_aux, vda, fds, outs, last, dpc>>

(* -------------------------- specifications ---------------------------- *)

\* Results the kernel reports for operation z.
AllResults == (-MaxErrno)..MaxSize

\* The concurrent specification: NumZios threads hand one request each to
\* vdev_disk_aio_start while the poller runs and init/fini run: reads,
\* writes and flushes that reach io_submit; reads and flushes complete in
\* full, writes fail with the error MaxErrno, and io_submit rejects only
\* what a full or missing queue makes it reject (SpecOne has every kind of
\* request, every result and every outcome of io_submit).
SpecRequests ==
    {r \in Requests :
        /\ r.io_type \in {ZIO_TYPE_READ, ZIO_TYPE_WRITE, ZIO_TYPE_IOCTL}
        /\ r.io_size \in {0, MaxSize}
        /\ CheckType(r).then = "break"}

SpecResults(z) ==
    IF zio[z].io_type = ZIO_TYPE_WRITE THEN {-MaxErrno} ELSE {zio[z].io_size}

Start(z) == \E r \in SpecRequests : StartCheck(z, r, FALSE)

Submit(z) ==
    \E ret \in (IF kctx = "open" THEN {1, -EAGAIN} ELSE {-EINVAL}) : IoSubmit(z, ret)

Complete(z) == \E s \in SpecResults(z) : KernelComplete(z, s)

GetEvents == \E nr \in GetEventsOutcomes : PollGetEvents(nr)

Setup == \E err \in {0, -EAGAIN} : InitSetup(err)

Poller == PollLoop \/ GetEvents \/ DoneSettle \/ DoneDispatch \/ DoneFree \/ PollExit

Fini == FiniStop \/ FiniWait \/ FiniSleep \/ FiniDestroy \/ FiniNull

Next ==
    \/ Setup \/ InitCreate \/ InitStore
    \/ FiniStop \/ FiniWait \/ FiniSleep \/ FiniDestroy \/ FiniNull
    \/ PollLoop \/ GetEvents \/ DoneSettle \/ DoneDispatch \/ DoneFree \/ PollExit
    \/ \E z \in Zios : Start(z)
    \/ \E z \in Zios : Submit(z)
    \/ \E z \in Zios : StartReturn(z)
    \/ \E z \in Zios : Complete(z)

Spec == Init /\ [][Next]_vars

\* One request, of any kind and with any kernel result, handed to
\* vdev_disk_aio_start in a build with or without assertions.
StartAny == \E r \in Requests : \E a \in BOOLEAN : StartCheck(1, r, a)

SubmitAny == \E ret \in {1, 0, -EAGAIN, -EINVAL} : IoSubmit(1, ret)

CompleteAny == \E s \in AllResults : KernelComplete(1, s)

NextOne ==
    \/ Setup \/ InitCreate \/ InitStore
    \/ FiniStop \/ FiniWait \/ FiniSleep \/ FiniDestroy \/ FiniNull
    \/ PollLoop \/ GetEvents \/ DoneSettle \/ DoneDispatch \/ DoneFree \/ PollExit
    \/ StartAny \/ SubmitAny \/ StartReturn(1) \/ CompleteAny

SpecOne == Init /\ [][NextOne]_vars

\* Every thread that can take a step eventually takes one (the scheduler
\* starves no thread), and the poller's wait is not interrupted for ever.
MainStep == Setup \/ InitCreate \/ InitStore \/ Fini

Fairness ==
    /\ WF_vars(MainStep)
    /\ WF_vars(Poller)
    /\ SF_vars(\E nr \in 0..QueueDepth : PollGetEvents(nr))
    /\ \A z \in Zios : WF_vars(Submit(z) \/ StartReturn(z))
    /\ \A z \in Zios : WF_vars(Complete(z))

FairSpec == Spec /\ Fairness

\* Normal running: init succeeds, fini is not called and io_getevents fails
\* with EINTR only; reads, writes and flushes, with every outcome of
\* io_submit.
LiveRequests ==
    {r \in Requests :
        /\ r.io_type \in {ZIO_TYPE_READ, ZIO_TYPE_WRITE, ZIO_TYPE_IOCTL}
        /\ r.io_cmd \in {"NULL", DKIOCFLUSHWRITECACHE}
        /\ r.io_size \in {0, MaxSize}}

StartLive(z) == \E r \in LiveRequests : StartCheck(z, r, FALSE)

SubmitLive(z) == \E ret \in {1, 0, -EAGAIN, -EINVAL} : IoSubmit(z, ret)

SetupLive == InitSetup(0)

WaitLive == \E nr \in GetEventsOutcomes \ {-EINVAL} : PollGetEvents(nr)

NextLive ==
    \/ SetupLive \/ InitCreate \/ InitStore
    \/ PollLoop \/ WaitLive \/ DoneSettle \/ DoneDispatch \/ DoneFree
    \/ \E z \in Zios : StartLive(z)
    \/ \E z \in Zios : SubmitLive(z)
    \/ \E z \in Zios : StartReturn(z)
    \/ \E z \in Zios : Complete(z)

LiveSpec ==
    /\ Init
    /\ [][NextLive]_vars
    /\ WF_vars(SetupLive \/ InitCreate \/ InitStore)
    /\ WF_vars(PollLoop \/ DoneSettle \/ DoneDispatch \/ DoneFree)
    /\ SF_vars(\E nr \in 0..QueueDepth : PollGetEvents(nr))
    /\ \A z \in Zios : WF_vars(SubmitLive(z) \/ StartReturn(z))
    /\ \A z \in Zios : WF_vars(Complete(z))

\* One vdev opened, reopened and closed by its caller, one call at a time
\* (the caller holds the configuration lock across them).
Open ==
    \E path \in Paths, asserts \in BOOLEAN, h \in Handles, openok \in BOOLEAN,
       fail \in 0..3 : VdevOpen(path, asserts, h, openok, fail)

Reopening == \E b \in BOOLEAN : SetReopening(b)

Device == \E g \in Geometries : DevChange(g)

NextDev == Open \/ VdevClose \/ Reopening \/ SetDelayedClose \/ Device

DevSpec == Init /\ [][NextDev]_vars

(* ------------------------------ claims -------------------------------- *)

\* C1: with the poller running, no teardown and no unrecoverable wait
\* failure, every read, write or flush handed to vdev_disk_aio_start
\* eventually has zio_interrupt or zio_execute called on it, and never more
\* than once, also when io_submit found the queue full.  A request is
\* handed over once and its log of calls only grows, so "every request
\* handed over is eventually settled" is "from some point on, every request
\* handed over has been settled exactly once".
C1_SettledExactlyOnce ==
    /\ [](\A z \in Zios : Len(settled[z]) <= 1)
    /\ <>[](\A z \in Zios : pc[z] # "idle" => Len(settled[z]) = 1)

\* One request has been settled by vdev_disk_aio_done and another, whose
\* io_submit found the queue full, by vdev_disk_aio_start.
C1_Witness ==
    \E a, b \in Zios :
        /\ atSubmit[a] = "full"
        /\ pc[a] = "returned"
        /\ Len(settled[a]) = 1
        /\ finalized[b] = 1
        /\ Len(settled[b]) = 1

\* C4, as claimed: io_destroy never runs while the poller is in its loop,
\* and once fini has set stop_polling the poller exits with poller_tid
\* cleared and fini returns.
C4_FiniTerminates ==
    /\ [](Destroyed => ppc \in {"none", "gone"})
    /\ (mpc = "wait") ~> (ppc \in {"none", "gone"} /\ poller_tid = 0)
    /\ (mpc = "wait") ~> (mpc = "done")

\* io_submit has accepted the operation of request z.
Accepted(z) == atSubmit[z] # "none" /\ error[z] = 1

\* io_submit has been called for request z and has rejected it.
Rejected(z) == atSubmit[z] # "none" /\ error[z] <= 0

\* Operations accepted by io_submit and not yet handed to vdev_disk_aio_done.
Undone == {z \in Zios : Accepted(z) /\ finalized[z] = 0}

\* C2, as claimed: vdev_disk_aio_done runs at most once for a task, and only
\* after io_submit for it has returned successfully to vdev_disk_aio_start.
C2_DoneOnlyAfterSubmitReturned ==
    \A z \in Zios :
        /\ finalized[z] <= 1
        /\ finalized[z] >= 1 => pc[z] = "returned" /\ error[z] = 1

\* C2, amended: vdev_disk_aio_done runs at most once for a task, and only
\* for a task whose operation io_submit has accepted (the call may not have
\* returned to the submitting thread yet); never for a task not yet
\* submitted or rejected.
C2_DoneOnlyAfterAccepted ==
    \A z \in Zios :
        /\ finalized[z] <= 1
        /\ finalized[z] >= 1 => Accepted(z)

\* vdev_disk_aio_done has begun on a task while its submitter is still
\* inside io_submit.
C2_Witness ==
    \E z \in Zios : finalized[z] = 1 /\ pc[z] = "in_submit" /\ error[z] = 1

C5_NoCallAfterDestroy == late = {}

\* C5, amended: no io_getevents call is issued against io_ctx after
\* io_destroy has run or io_ctx has been cleared (io_submit calls of
\* submitters still running are not held back by fini).
C5_NoPollAfterDestroy == "io_getevents" \notin late

\* fini has destroyed the queue of a poller that had been polling, and a
\* submitter has called io_submit after that.
C5_Witness ==
    /\ mpc = "done"
    /\ ppc = "gone"
    /\ kctx = "destroyed"
    /\ "io_submit" \in late
    /\ \E z \in Zios : finalized[z] = 1

\* vdev_disk_aio_done is running on events[idx] and has settled the error.
InDone == ppc \in {"done_cont", "done_free"}

\* The unsigned long res holds a negative kernel result.
Negative(res) == res >= ULONG_MOD \div 2

\* C6, as claimed: when io_submit returns 0 the request is settled with
\* EAGAIN, when it returns -e with e, and once the request is settled its
\* task has been freed and no buffer borrowed for it is outstanding.
C6_FailedSubmitUnwinds ==
    \A z \in Zios :
        (Rejected(z) /\ pc[z] = "returned") =>
            /\ zio[z].io_error = (IF error[z] = 0 THEN EAGAIN ELSE -error[z])
            /\ task[z].st = "freed"
            /\ task[z].buf # "borrowed"

\* C7, as claimed: for a read or write whose result is negative (-e),
\* vdev_disk_aio_done records e in io_error, and not ENOSPC.
C7_NegativeResultIsOsError ==
    InDone =>
        LET z == events[idx].data
            res == events[idx].res
        IN (zio[z].io_type \in {ZIO_TYPE_READ, ZIO_TYPE_WRITE} /\ Negative(res)) =>
               /\ zio[z].io_error = ULONG_MOD - res
               /\ zio[z].io_error # ENOSPC

\* C8: for a read or write whose result is non-negative, a result smaller
\* than io_size settles the request with ENOSPC and a result equal to
\* io_size leaves io_error unset.
C8_ShortTransferIsNoSpace ==
    InDone =>
        LET z == events[idx].data
            res == events[idx].res
        IN (zio[z].io_type \in {ZIO_TYPE_READ, ZIO_TYPE_WRITE} /\ ~Negative(res)) =>
               /\ res < zio[z].io_size => zio[z].io_error = ENOSPC
               /\ res = zio[z].io_size => zio[z].io_error = 0

\* vdev_disk_aio_done has settled a short write with ENOSPC.
C8_Witness ==
    /\ InDone
    /\ zio[events[idx].data].io_type = ZIO_TYPE_WRITE
    /\ events[idx].res < zio[events[idx].data].io_size
    /\ zio[events[idx].data].io_error = ENOSPC

\* C9, as claimed: for a completed flush vdev_disk_aio_done records e when
\* the result is negative (-e) and leaves io_error unset for every zero or
\* positive result.
C9_FlushResult ==
    InDone =>
        LET z == events[idx].data
            res == events[idx].res
        IN zio[z].io_type = ZIO_TYPE_IOCTL =>
               /\ Negative(res) => zio[z].io_error = ULONG_MOD - res
               /\ ~Negative(res) => zio[z].io_error = 0

ByDone(c) == c.by = "done"

\* The continuation calls vdev_disk_aio_done has made on request z.
DoneCalls(z) == SelectSeq(settled[z], ByDone)

\* vdev_disk_aio_done has returned for the task of request z.
DoneReturned(z) ==
    finalized[z] >= 1 /\ ~(ppc \in {"done_cont", "done_free"} /\ events[idx].data = z)

\* C10: vdev_disk_aio_done re-enters the pipeline exactly once, reads through
\* zio_interrupt, writes and flushes through zio_execute, whatever the
\* result; the error field has its final value when the continuation is
\* called, the task is still allocated then, and it is freed when
\* vdev_disk_aio_done returns, with or without an error.
C10_OneContinuationByKind ==
    \A z \in Zios :
        /\ Len(DoneCalls(z)) <= 1
        /\ \A i \in 1..Len(DoneCalls(z)) :
            /\ zio[z].io_type = ZIO_TYPE_READ => DoneCalls(z)[i].fn = "zio_interrupt"
            /\ zio[z].io_type \in {ZIO_TYPE_WRITE, ZIO_TYPE_IOCTL} =>
                  DoneCalls(z)[i].fn = "zio_execute"
            /\ DoneCalls(z)[i].io_error = zio[z].io_error
            /\ DoneCalls(z)[i].task = "live"
        /\ (finalized[z] >= 1 /\ task[z].st = "live") =>
              (ppc \in {"done_cont", "done_free"} /\ events[idx].data = z)
        /\ (ppc = "done_free" /\ events[idx].data = z) => Len(DoneCalls(z)) = 1
        /\ DoneReturned(z) => Len(DoneCalls(z)) = 1 /\ task[z].st = "freed"

\* vdev_disk_aio_done has returned for a write that failed: one zio_execute
\* call, made with the error set, and the task freed.
C10_Witness ==
    \E z \in Zios :
        /\ DoneReturned(z)
        /\ zio[z].io_type = ZIO_TYPE_WRITE
        /\ zio[z].io_error # 0
        /\ Len(settled[z]) = 1
        /\ settled[z][1].fn = "zio_execute"
        /\ settled[z][1].io_error = zio[z].io_error
        /\ task[z].st = "freed"

ByStart(c) == c.by = "start"

\* The continuation calls vdev_disk_aio_start has made on request z.
StartCalls(z) == SelectSeq(settled[z], ByStart)

\* Request z has been handed to vdev_disk_aio_start.
Handed(z) == pc[z] # "idle"

\* Request z is a control request that vdev_disk_aio_start settles through
\* zio_execute: on a readable device, a command other than the flush, or a
\* flush with zfs_nocacheflush set.
ControlDone(z) ==
    /\ zio[z].io_type = ZIO_TYPE_IOCTL
    /\ zio[z].readable
    /\ zio[z].io_cmd # DKIOCFLUSHWRITECACHE \/ zio[z].nocacheflush

\* C11, as claimed: every continuation call vdev_disk_aio_start makes is
\* zio_execute, and zio_interrupt is called for completed reads only.
C11_FailuresThroughExecute ==
    \A z \in Zios : \A i \in 1..Len(settled[z]) :
        /\ settled[z][i].by = "start" => settled[z][i].fn = "zio_execute"
        /\ settled[z][i].fn = "zio_interrupt" =>
              (settled[z][i].by = "done" /\ zio[z].io_type = ZIO_TYPE_READ)

\* C11, amended: the failure paths of vdev_disk_aio_start (unreadable
\* device, io_submit returning 0 or a negative value, unsupported kind) call
\* zio_interrupt; vdev_disk_aio_start calls zio_execute only for a control
\* request on a readable device that it settles without a submission.
C11_FailuresThroughInterrupt ==
    \A z \in Zios : \A i \in 1..Len(StartCalls(z)) :
        StartCalls(z)[i].fn =
            (IF ControlDone(z) THEN "zio_execute" ELSE "zio_interrupt")

\* A flush on an unreadable device has been settled by vdev_disk_aio_start
\* through zio_interrupt.
C11_Witness ==
    \E z \in Zios :
        /\ zio[z].io_type = ZIO_TYPE_IOCTL
        /\ ~zio[z].readable
        /\ pc[z] = "returned"
        /\ StartCalls(z) # <<>>
        /\ StartCalls(z)[1].fn = "zio_interrupt"

\* C12, as claimed: a request that is neither read, write nor ioctl is
\* settled once with ENOTSUP, no task is allocated and no buffer borrowed
\* for it, and io_submit is not called for it.
C12_UnsupportedKindRejected ==
    \A z \in Zios :
        (Handed(z) /\ zio[z].io_type = ZIO_TYPE_FREE) =>
            /\ zio[z].io_error = ENOTSUP
            /\ Len(settled[z]) = 1
            /\ task[z].st = "none"
            /\ task[z].buf = "NULL"
            /\ atSubmit[z] = "none"
            /\ pc[z] = "returned"

\* C13, as claimed: a control request on a readable device whose command is
\* not the flush is settled with no error recorded, no task and no
\* submission.
C13_UnsupportedCommandNoError ==
    \A z \in Zios :
        (Handed(z) /\ zio[z].io_type = ZIO_TYPE_IOCTL /\ zio[z].readable
            /\ zio[z].io_cmd # DKIOCFLUSHWRITECACHE) =>
            /\ zio[z].io_error = 0
            /\ Len(settled[z]) = 1
            /\ task[z].st = "none"
            /\ atSubmit[z] = "none"

\* C13, amended: such a request is settled once, through zio_execute, with
\* ENOTSUP recorded, no task and no submission.
C13_UnsupportedCommandNotSup ==
    \A z \in Zios :
        (Handed(z) /\ zio[z].io_type = ZIO_TYPE_IOCTL /\ zio[z].readable
            /\ zio[z].io_cmd # DKIOCFLUSHWRITECACHE) =>
            /\ zio[z].io_error = ENOTSUP
            /\ Len(settled[z]) = 1
            /\ settled[z][1].fn = "zio_execute"
            /\ settled[z][1].io_error = ENOTSUP
            /\ task[z].st = "none"
            /\ atSubmit[z] = "none"
            /\ pc[z] = "returned"

\* A control request with another command than the flush has been settled.
C13_Witness ==
    \E z \in Zios :
        /\ pc[z] = "returned"
        /\ zio[z].io_type = ZIO_TYPE_IOCTL
        /\ zio[z].readable
        /\ zio[z].io_cmd = DKIOCGGEOM
        /\ Len(settled[z]) = 1

\* C14: a control request handed over while the device is not readable is
\* settled at once with ENXIO, whatever its command and zfs_nocacheflush,
\* with no task allocated and no submission.
C14_UnreadableIsNoDevice ==
    \A z \in Zios :
        (Handed(z) /\ zio[z].io_type = ZIO_TYPE_IOCTL /\ ~zio[z].readable) =>
            /\ zio[z].io_error = ENXIO
            /\ Len(settled[z]) = 1
            /\ settled[z][1].by = "start"
            /\ settled[z][1].io_error = ENXIO
            /\ task[z].st = "none"
            /\ atSubmit[z] = "none"
            /\ pc[z] = "returned"

\* A request with an unsupported command and zfs_nocacheflush set has been
\* settled with ENXIO on an unreadable device.
C14_Witness ==
    \E z \in Zios :
        /\ pc[z] = "returned"
        /\ zio[z].io_type = ZIO_TYPE_IOCTL
        /\ ~zio[z].readable
        /\ zio[z].io_cmd = DKIOCGGEOM
        /\ zio[z].nocacheflush
        /\ zio[z].io_error = ENXIO

\* The poller thread exists and has not yet executed its 'poller_tid = 0'.
PollerAlive == ppc \notin {"none", "gone"}

\* No call of vdev_disk_aio_init or vdev_disk_aio_fini is running.
Observable == mpc \in {"ready", "done"}

\* C17, as claimed: in every state callers can observe the context is fully
\* initialized (queue open, poller running, poller_tid recorded) or fully
\* torn down (no open queue, io_ctx cleared, no poller).
C17_AllOrNothing ==
    Observable =>
        \/ kctx = "open" /\ io_ctx # NULL /\ PollerAlive /\ poller_tid # 0
        \/ kctx # "open" /\ io_ctx = NULL /\ ~PollerAlive /\ poller_tid = 0

\* C19: once io_submit has accepted the operation of request z, the step
\* that returns from vdev_disk_aio_start changes neither the request, nor
\* its task and buffer, nor calls a continuation on it: what is written
\* after the acceptance is written by the poller.
C19_NoTouchAfterAccept ==
    [][\A z \in Zios :
          (Accepted(z) /\ pc[z] = "in_submit" /\ pc'[z] # pc[z]) =>
              /\ zio'[z] = zio[z]
              /\ task'[z] = task[z]
              /\ settled'[z] = settled[z]]_vars

\* The poller has finalized and freed the task of an accepted operation
\* whose vdev_disk_aio_start has not returned yet.
C19_Witness ==
    \E z \in Zios :
        /\ Accepted(z)
        /\ pc[z] = "in_submit"
        /\ finalized[z] = 1
        /\ task[z].st = "freed"

\* C20, as claimed: poller_tid is non-zero only while a poller exists that
\* has not executed its final store, and once vdev_disk_aio_init has
\* returned a poller that exists has its poller_tid recorded.
C20_TidIffPoller ==
    /\ poller_tid # 0 => PollerAlive
    /\ (InitReturned /\ PollerAlive) => poller_tid # 0

\* The step is a call of vdev_disk_aio_open that has returned.
OpenCall == last'.seq # last.seq /\ last'.fn = "open"

\* The step is a call of vdev_disk_aio_close.
CloseCall == last'.seq # last.seq /\ last'.fn = "close"

\* C15, as claimed: when vdev_disk_aio_open has failed on a geometry query
\* of a freshly opened device the descriptor has been closed, the handle
\* freed and vdev_tsd is NULL, and when it has failed so on a reopen the
\* descriptor has not been closed; no close() and no query is ever made on
\* a descriptor that is not open.
C15_FailedOpenUnwinds ==
    /\ ~last.ebadf
    /\ (last.fn = "open" /\ last.failq # 0) =>
          IF last.reopen
          THEN last.closes = 0
          ELSE /\ last.closes = 1
               /\ last.closed_fd \notin fds
               /\ vda[last.alloc].st = "free"
               /\ vdev_tsd = NULL

\* C16: vdev_disk_aio_close changes nothing when the vdev is reopening or
\* has no handle; otherwise it calls close() once, on the descriptor of the
\* handle, clears vdev_delayed_close, frees the handle and sets vdev_tsd to
\* NULL, which leaves no handle allocated.
C16_CloseReleasesOnce ==
    [][CloseCall =>
          IF vdev_reopening \/ vdev_tsd = NULL
          THEN /\ last'.closes = 0
               /\ UNCHANGED <<vdev_tsd, vdev_reopening, vdev_delayed_close,
                              vdev_nonrot, vs_aux, vda, fds, dev, outs>>
          ELSE /\ last'.closes = 1
               /\ last'.closed_fd = vda[vdev_tsd].vda_fd
               /\ vda[vdev_tsd].vda_fd \notin fds'
               /\ vdev_delayed_close' = FALSE
               /\ \A h \in Handles : vda'[h].st = "free"
               /\ vdev_tsd' = NULL]_vars

\* An open device has been closed: no descriptor is open, no handle is left
\* and no delayed close is pending.
C16_Witness ==
    /\ last.fn = "close"
    /\ last.closes = 1
    /\ ~last.ebadf
    /\ fds = {}
    /\ vdev_tsd = NULL
    /\ ~vdev_delayed_close

\* C18: a call of vdev_disk_aio_open on a vdev that has a handle and is
\* reopening keeps the handle and its descriptor, calls neither kmem_zalloc
\* nor open(), and when it returns 0 the outputs and vdev_nonrot are those
\* of the device as it is now and the descriptor is open.
C18_ReopenRefreshes ==
    [][(OpenCall /\ vdev_tsd # NULL /\ vdev_reopening) =>
          /\ vdev_tsd' = vdev_tsd
          /\ vda' = vda
          /\ ~last'.opened
          /\ last'.alloc = 0
          /\ last'.ret = 0 =>
                /\ 2 ^ outs'.ashift = dev.ssz
                /\ outs'.psize = dev.size
                /\ outs'.max_psize = dev.size
                /\ vdev_nonrot' = (dev.rot = 0)
                /\ vda[vdev_tsd].vda_fd \in fds']_vars

\* A reopen has succeeded on a device whose sector size is no longer the
\* one it had when it was opened.
C18_Witness ==
    /\ last.fn = "open"
    /\ last.reopen
    /\ last.ret = 0
    /\ vdev_reopening
    /\ dev.ssz # SPA_MINBLOCKSIZE
    /\ 2 ^ outs.ashift = dev.ssz
    /\ outs.psize = dev.size

====
